---- MODULE Spec2Model ----
(***************************************************************************)
(* Model of the view-transition orchestration of start-perfect-navigation: *)
(* the Link click handler, handleRouteChangeComplete and the window /      *)
(* sessionStorage / DOM state they share; and of NextImage's handleLoading *)
(* with its data-loaded-src guard and deferred decode.                     *)
(***************************************************************************)
EXTENDS Integers, Sequences, FiniteSets, TLC

\* ------------------------------------------------------------------ bounds
MaxSteps == 5
MaxDom == 2
MaxImgEvents == 6

\* ------------------------------------------------------- JavaScript values
Undefined == "<undefined>"
Null == "<null>"

\* JavaScript truthiness of a string | null | undefined value.
Truthy(v) == v \notin {Undefined, Null, ""}

\* Template-literal conversion `${v}`: undefined prints as "undefined".
Str(v) == IF v = Undefined THEN "undefined" ELSE IF v = Null THEN "null" ELSE v

\* ------------------------------------------------------------------- DOM
\* The logical image elements a rendered page may contain.
Elements == {"t1", "g", "u"}

\* The src attribute as written in the markup.
SrcAttr(e) ==
  CASE e = "t1" -> "/img/a.png"
    [] e = "g" -> "/img/a.png"
    [] e = "u" -> "undefined"

\* class="transitionable-img"
HasTransitionableClass(e) == e = "t1"

\* id="transition-img"
HasTransitionImgId(e) == e = "g"

Origin == "http://localhost:3000"

\* img.src: the attribute resolved against the document's origin.
SrcProperty(e) ==
  LET a == SrcAttr(e)
  IN IF SubSeq(a, 1, 1) = "/" THEN Origin \o a ELSE Origin \o "/" \o a

\* s.replace(origin, ''): the first occurrence (here: the prefix) removed.
StripOrigin(s) ==
  IF Len(s) >= Len(Origin) /\ SubSeq(s, 1, Len(Origin)) = Origin
  THEN SubSeq(s, Len(Origin) + 1, Len(s))
  ELSE s

\* An element's attribute by name (Null: the element has no such attribute).
Attr(e, name) == IF name = "src" THEN SrcAttr(e) ELSE Null

RECURSIVE NoRepeat(_)
NoRepeat(s) ==
  IF Len(s) <= 1 THEN TRUE
  ELSE /\ \A i \in 2..Len(s) : s[i] # s[1]
       /\ NoRepeat(Tail(s))

\* The documents a render can produce: images in document order.
DomPool ==
  UNION {{s \in [1..n -> Elements] : NoRepeat(s)} : n \in 0..MaxDom}

\* Index of the first element of d that is in the set S, 0 when none.
FirstIndex(d, S) ==
  IF \E i \in 1..Len(d) : d[i] \in S
  THEN CHOOSE i \in 1..Len(d) :
         d[i] \in S /\ \A j \in 1..(i - 1) : d[j] \notin S
  ELSE 0

NthChild(i) == "img:nth-child(" \o ToString(i) \o ")"

\* getElementSelector: a selector that finds the element again in the
\* document it was computed in; empty when no element is given.
GetElementSelector(e, d) ==
  IF e = Null THEN ""
  ELSE IF HasTransitionImgId(e) THEN "#transition-img"
  ELSE NthChild(FirstIndex(d, {e}))

\* document.querySelector(selector): first match in document order, or null.
QuerySelector(sel, d) ==
  IF sel = "#transition-img"
  THEN LET i == FirstIndex(d, {e \in Elements : HasTransitionImgId(e)})
       IN IF i = 0 THEN Null ELSE d[i]
  ELSE IF \E i \in 1..Len(d) : NthChild(i) = sel
       THEN d[CHOOSE i \in 1..Len(d) : NthChild(i) = sel]
       ELSE Null

\* document.querySelector(`[${name}="${value}"]`)
QueryAttribute(name, value, d) ==
  LET i == FirstIndex(d, {e \in Elements : Attr(e, Str(name)) = Str(value)})
  IN IF i = 0 THEN Null ELSE d[i]

\* --------------------------------------------------------- sessionStorage
StoragePrefix == "__NRVT_view_transition_image_selector_"

GetItem(store, k) == IF k \in DOMAIN store THEN store[k] ELSE Null

SetItem(store, k, v) ==
  [x \in (DOMAIN store) \cup {k} |-> IF x = k THEN v ELSE store[x]]

EmptyStorage == [x \in {} |-> ""]

\* ------------------------------------------------------------ router keys
RouterKeys == {"r1", "r2"}

\* ------------------------------------------------------------------ state
VARIABLES
  routerKey,                 \* window.__NRVT_routerKey
  previousRouterKey,         \* window.__NRVT_previousRouterKey
  transitionImgSelector,     \* window.__NRVT_transitionImgSelector
  transitionAttributeName,   \* window.__NRVT_transitionAttributeName
  transitionAttributeValue,  \* window.__NRVT_transitionAttributeValue
  sessionStorage,            \* the tab's sessionStorage
  dom,                       \* the rendered document's images, in order
  named,                     \* elements whose style.viewTransitionName is set
  nav,                       \* the navigation the router is running, if any
  fwd,                       \* the last completed link navigation (history)
  last,                      \* what the last handler run read and did
  steps,                     \* handler runs so far
  img                        \* the NextImage element (see handleLoading)

navVars == <<routerKey, previousRouterKey, transitionImgSelector,
             transitionAttributeName, transitionAttributeValue,
             sessionStorage, dom, named, nav, fwd, last, steps>>

vars == <<navVars, img>>

\* kind: what started the navigation. img and wrote*: what the starting
\* click found and registered. own: the pending marker and selector are
\* those of this navigation's own click. marked: a click has registered a
\* marker since the last completion. superseded: the pending marker is that
\* of a navigation that another one replaced before it completed.
NoNav == [kind |-> "none", img |-> Null, wroteSelector |-> Undefined,
          wroteName |-> Undefined, wroteValue |-> Undefined,
          own |-> FALSE, marked |-> FALSE, superseded |-> FALSE]

NoFwd == [from |-> Undefined, to |-> Undefined, img |-> Null]

NoRun == [op |-> "init", nav |-> NoNav, fwd |-> NoFwd,
          p |-> Undefined, c |-> Undefined,
          slot |-> Undefined, name |-> Undefined, value |-> Undefined,
          store |-> EmptyStorage, step2 |-> <<>>, backKey |-> "",
          backSelector |-> Null,
          img |-> Null, transitionImg |-> Null, markerWrite |-> <<>>,
          kept |-> {}]

\* ------------------------------------------- handleRouteChangeComplete
\* Variant: the forward key built in the order of the backward key.
ForwardKeySwapped(p, c) == StoragePrefix \o Str(c) \o "-" \o Str(p)

\* Line 14: the key the transient selector is persisted under.
ForwardKey(p, c) == StoragePrefix \o Str(p) \o "-" \o Str(c)

\* Variant: the backward key built in the order of the forward key.
BackRouterKeySwapped(p, c) == Str(p) \o "-" \o Str(c)

\* Line 19: backRouterKey.
BackRouterKey(p, c) == Str(c) \o "-" \o Str(p)

\* Lines 20 and 34: the key read for back/forward, and written by the
\* marker branch.
BackKey(p, c) == StoragePrefix \o BackRouterKey(p, c)

\* Lines 13-17: the write of step 2, <<key, value>>, or <<>> when the
\* transient slot is falsy.
PersistSlot(slot, p, c) ==
  IF Truthy(slot) THEN <<ForwardKey(p, c), slot>> ELSE <<>>

\* Variant: the transient slot is not emptied.
SlotKept(slot) == slot

\* Line 16: the transient slot after step 2.
SlotAfterPersist(slot) == IF Truthy(slot) THEN Undefined ELSE slot

\* Variant: a stored selector that finds nothing falls back to the first
\* image of the document.
ResolveStoredOrFirst(imgSelector, d) ==
  IF Truthy(imgSelector)
  THEN IF QuerySelector(imgSelector, d) = Null /\ Len(d) > 0
       THEN d[1] ELSE QuerySelector(imgSelector, d)
  ELSE Undefined

\* Line 21: the element the stored selector resolves to.
ResolveStored(imgSelector, d) ==
  IF Truthy(imgSelector) THEN QuerySelector(imgSelector, d) ELSE Undefined

\* Variant: the marker's value is cleared before the lookup.
MarkerMatchCleared(i, name, value, d) ==
  IF Truthy(i) THEN Null ELSE QueryAttribute(name, Undefined, d)

\* Line 29: the element matching the pending marker. Evaluated only in the
\* branch where the stored selector gave no element.
MarkerMatch(i, name, value, d) ==
  IF Truthy(i) THEN Null ELSE QueryAttribute(name, value, d)

\* Variant: the marker branch persists under the forward key.
MarkerWriteForward(transitionImg, p, c, d) ==
  IF Truthy(transitionImg)
  THEN <<StoragePrefix \o Str(p) \o "-" \o Str(c),
         GetElementSelector(transitionImg, d)>>
  ELSE <<>>

\* Lines 31-35: the write of the marker branch, <<key, value>> or <<>>.
MarkerWrite(transitionImg, p, c, d) ==
  IF Truthy(transitionImg)
  THEN <<BackKey(p, c),
         IF Truthy(GetElementSelector(transitionImg, d))
         THEN GetElementSelector(transitionImg, d) ELSE "">>
  ELSE <<>>

\* cleanUpTransition: no element keeps the transition name.
CleanUpTransition(n) == {}

\* Variant: the clean-up before the assignment is left out.
NamedAfterNoCleanUp(n, i, transitionImg) ==
  IF Truthy(i) THEN n \cup {i}
  ELSE IF Truthy(transitionImg) THEN n \cup {transitionImg}
  ELSE n

\* Lines 23-36: the elements named after the run.
NamedAfter(n, i, transitionImg) ==
  IF Truthy(i) THEN CleanUpTransition(n) \cup {i}
  ELSE IF Truthy(transitionImg) THEN CleanUpTransition(n) \cup {transitionImg}
  ELSE CleanUpTransition(n)

\* Variant: the marker's value is left as it is.
AttributeValueKept(v) == v

\* Line 38.
AttributeValueAfter(v) == Undefined

ApplyWrite(store, w) == IF w = <<>> THEN store ELSE SetItem(store, w[1], w[2])

\* The router has rendered document d for the running navigation and calls
\* handleRouteChangeComplete(key).
Complete(key, d) ==
  /\ nav.kind # "none"
  /\ steps < MaxSteps
  /\ LET p == routerKey
         step2 == PersistSlot(transitionImgSelector, p, key)
         store1 == ApplyWrite(sessionStorage, step2)
         imgSelector == GetItem(store1, BackKey(p, key))
         i == ResolveStored(imgSelector, d)
         kept == named \cap {d[k] : k \in 1..Len(d)}
         transitionImg ==
           MarkerMatch(i, transitionAttributeName, transitionAttributeValue, d)
         write == MarkerWrite(transitionImg, p, key, d)
     IN /\ previousRouterKey' = p
        /\ routerKey' = key
        /\ transitionImgSelector' = SlotAfterPersist(transitionImgSelector)
        /\ sessionStorage' = ApplyWrite(store1, write)
        /\ dom' = d
        /\ named' = NamedAfter(kept, i, transitionImg)
        /\ transitionAttributeValue' = AttributeValueAfter(transitionAttributeValue)
        /\ last' = [op |-> "complete", nav |-> nav, fwd |-> fwd,
                    p |-> p, c |-> key,
                    slot |-> transitionImgSelector,
                    name |-> transitionAttributeName,
                    value |-> transitionAttributeValue,
                    store |-> sessionStorage,
                    step2 |-> step2, backKey |-> BackKey(p, key),
                    backSelector |-> imgSelector,
                    img |-> i, transitionImg |-> transitionImg,
                    markerWrite |-> write, kept |-> kept]
        /\ fwd' = IF nav.kind = "link"
                  THEN [from |-> p, to |-> key, img |-> nav.img]
                  ELSE NoFwd
  /\ nav' = NoNav
  /\ steps' = steps + 1
  /\ UNCHANGED <<transitionAttributeName, img>>

\* ------------------------------------------------------------ Link click
\* Link.handleClick: the image the click finds. linkImg is what
\* e.currentTarget.querySelector('.transitionable-img') returns.
FindTransitionImg(linkImg, d) ==
  IF linkImg # Null THEN linkImg ELSE QuerySelector("#transition-img", d)

\* Link.handleClick: the image's src with the origin stripped, '' without
\* an image.
ClickSrc(transitionImg) ==
  IF transitionImg # Null THEN StripOrigin(SrcProperty(transitionImg)) ELSE ""

\* handleTransitionStarted({element, attributeName, attributeValue}): the
\* marker and the transient selector after the call, as
\* <<selector, name, value>>. Without an element nothing is registered.
HandleTransitionStarted(element, attributeName, attributeValue, d) ==
  IF element = Null
  THEN <<transitionImgSelector, transitionAttributeName, transitionAttributeValue>>
  ELSE <<GetElementSelector(element, d), attributeName, attributeValue>>

\* Variant: the handler's writes have not happened when the router starts
\* the navigation (they come after an await and are lost to this model).
LinkClickLateWrites(linkImg, navigates) ==
  /\ steps < MaxSteps
  /\ LET transitionImg == FindTransitionImg(linkImg, dom)
         found == transitionImg # Null
     IN /\ nav' = IF navigates
                  THEN [kind |-> "link", img |-> transitionImg,
                        wroteSelector |->
                          IF found THEN GetElementSelector(transitionImg, dom)
                          ELSE Undefined,
                        wroteName |-> IF found THEN "src" ELSE Undefined,
                        wroteValue |->
                          IF found THEN ClickSrc(transitionImg) ELSE Undefined,
                        own |-> found, marked |-> nav.marked \/ found,
                        superseded |-> FALSE]
                  ELSE nav
        /\ last' = [NoRun EXCEPT !.op = "click", !.nav = nav',
                                 !.img = transitionImg]
  /\ fwd' = NoFwd
  /\ steps' = steps + 1
  /\ UNCHANGED <<routerKey, previousRouterKey, transitionImgSelector,
                 transitionAttributeName, transitionAttributeValue,
                 sessionStorage, dom, named, img>>

\* The user activates a link. navigates: whether the router starts a
\* navigation for this click (it does not for a modifier click or a
\* disabled link; handleClick runs either way).
LinkClick(linkImg, navigates) ==
  /\ steps < MaxSteps
  /\ LET transitionImg == FindTransitionImg(linkImg, dom)
         src == ClickSrc(transitionImg)
         found == transitionImg # Null
         w == HandleTransitionStarted(transitionImg, "src", src, dom)
     IN /\ transitionImgSelector' = w[1]
        /\ transitionAttributeName' = w[2]
        /\ transitionAttributeValue' = w[3]
        /\ nav' = IF navigates
                  THEN [kind |-> "link", img |-> transitionImg,
                        wroteSelector |-> IF found THEN w[1] ELSE Undefined,
                        wroteName |-> IF found THEN w[2] ELSE Undefined,
                        wroteValue |-> IF found THEN w[3] ELSE Undefined,
                        own |-> found,
                        marked |-> nav.marked \/ found,
                        superseded |->
                          ~found /\ (nav.superseded
                                      \/ (nav.kind = "link" /\ nav.own))]
                  ELSE [nav EXCEPT !.own = @ /\ ~found,
                                   !.marked = @ \/ found,
                                   !.superseded = @ /\ ~found]
        /\ last' = [NoRun EXCEPT !.op = "click", !.nav = nav',
                                 !.img = transitionImg]
  /\ fwd' = NoFwd
  /\ steps' = steps + 1
  /\ UNCHANGED <<routerKey, previousRouterKey, sessionStorage, dom, named, img>>

\* The user presses back or forward: the router starts a navigation to a
\* history entry; no click handler runs.
HistoryTraverse ==
  /\ steps < MaxSteps
  /\ nav.kind # "traverse"
  /\ nav' = [NoNav EXCEPT !.kind = "traverse", !.marked = nav.marked,
                          !.superseded = nav.superseded
                                         \/ (nav.kind = "link" /\ nav.own)]
  /\ last' = [NoRun EXCEPT !.op = "traverse", !.nav = nav']
  /\ UNCHANGED <<routerKey, previousRouterKey, transitionImgSelector,
                 transitionAttributeName, transitionAttributeValue,
                 sessionStorage, dom, named, fwd, steps, img>>

\* A full page load: the window's state starts over, sessionStorage stays.
Reload ==
  /\ steps < MaxSteps
  /\ routerKey # Undefined
  /\ routerKey' = Undefined
  /\ previousRouterKey' = Undefined
  /\ transitionImgSelector' = Undefined
  /\ transitionAttributeName' = Undefined
  /\ transitionAttributeValue' = Undefined
  /\ dom' = <<>>
  /\ named' = {}
  /\ nav' = [NoNav EXCEPT !.kind = "load"]
  /\ fwd' = NoFwd
  /\ last' = [NoRun EXCEPT !.op = "reload", !.nav = nav']
  /\ steps' = steps + 1
  /\ UNCHANGED <<sessionStorage, img>>


\* ------------------------------------------------- NextImage: handleLoading
ImgSrcs == {"/a.png", "/b.png"}

\* The <img> element of one ImageElement instance and what its handlers
\* have done. connected: the element has a parent and is in the document.
\* src: img.src. complete: img.complete. loadedSrc: img['data-loaded-src'].
\* loadEvent: a load event is queued for the element. decodes: the decode()
\* promises not settled yet, each tagged with the load (the index of the src
\* assignment) whose src handleLoading read. onLoadCalls / blurCalls: per
\* load, how often onLoadRef.current / onLoadingCompleteRef.current and
\* setBlurComplete(true) were called. detachedCalls: callbacks invoked while
\* the element was not connected. skipped: handleLoading has returned early
\* for a src whose decode was still pending.
NoImg == [state |-> "unmounted", connected |-> FALSE, placeholder |-> "empty",
          src |-> "", complete |-> FALSE, loadedSrc |-> Undefined,
          loadEvent |-> FALSE, decodes |-> <<>>, onLoadCalls |-> <<>>,
          blurCalls |-> <<>>, detachedCalls |-> 0, skipped |-> FALSE,
          events |-> 0]

\* Variant: the data-loaded-src guard never matches.
AlreadyLoadedNever(im) == FALSE

\* Line 56: `!img || img['data-loaded-src'] === src`.
AlreadyLoaded(im) == im.loadedSrc = im.src

\* Lines 55-61: handleLoading up to the start of decode(): returns early for
\* a src already handled, else marks the src and starts its decode.
HandleLoading(im) ==
  IF AlreadyLoaded(im)
  THEN [im EXCEPT !.skipped =
          @ \/ \E j \in 1..Len(im.decodes) :
                 im.decodes[j] = Len(im.onLoadCalls)]
  ELSE [im EXCEPT !.loadedSrc = im.src,
                  !.decodes = Append(@, Len(im.onLoadCalls))]

\* Lines 216-226: ownRef calls handleLoading only for a complete image.
OwnRef(im) == IF im.complete THEN HandleLoading(im) ELSE im

\* Variant: the continuation does not look at the element's connection.
SettledWhileDetachedIgnored(im) == FALSE

\* Line 62: `!img.parentElement || !img.isConnected`.
SettledWhileDetached(im) == ~im.connected

\* Lines 61-101: the continuation of decode(), resolved or rejected, for the
\* pending decode at position k.
DecodeContinuation(im, k) ==
  LET load == im.decodes[k]
      rest == [j \in 1..(Len(im.decodes) - 1) |->
                 IF j < k THEN im.decodes[j] ELSE im.decodes[j + 1]]
  IN IF SettledWhileDetached(im) THEN [im EXCEPT !.decodes = rest]
     ELSE [im EXCEPT
             !.decodes = rest,
             !.blurCalls[load] =
               IF im.placeholder # "empty" THEN @ + 1 ELSE @,
             !.onLoadCalls[load] = @ + 1,
             !.detachedCalls = IF im.connected THEN @ ELSE @ + 1]

Tick(im) == [im EXCEPT !.events = @ + 1]

\* React mounts the element: the src is set, the ref callback runs. The
\* image may be complete already (cached, or loaded before hydration), with
\* its load event still queued (loadEvent) or gone before React listened.
Mount(src, placeholder, complete, loadEvent) ==
  /\ img.state = "unmounted"
  /\ img.events < MaxImgEvents
  /\ loadEvent => complete
  /\ img' = Tick(OwnRef([img EXCEPT !.state = "mounted", !.connected = TRUE,
                                    !.placeholder = placeholder,
                                    !.src = src, !.complete = complete,
                                    !.loadEvent = loadEvent,
                                    !.onLoadCalls = <<0>>,
                                    !.blurCalls = <<0>>]))
  /\ UNCHANGED navVars

\* The browser finishes loading the current src and queues the load event.
ImageLoaded ==
  /\ img.state = "mounted"
  /\ img.events < MaxImgEvents
  /\ ~img.complete
  /\ img' = Tick([img EXCEPT !.complete = TRUE, !.loadEvent = TRUE])
  /\ UNCHANGED navVars

\* Lines 266-277: the queued load event reaches the onLoad handler.
LoadEvent ==
  /\ img.state = "mounted"
  /\ img.events < MaxImgEvents
  /\ img.loadEvent
  /\ img' = Tick(HandleLoading([img EXCEPT !.loadEvent = FALSE]))
  /\ UNCHANGED navVars

\* A render changes one of ownRef's dependencies other than src (placeholder,
\* onError, sizes ...): React calls the new ref callback with the element.
RefCallback(placeholder) ==
  /\ img.state = "mounted"
  /\ img.events < MaxImgEvents
  /\ img' = Tick(OwnRef([img EXCEPT !.placeholder = placeholder]))
  /\ UNCHANGED navVars

\* A render changes src: a new load starts (complete at once when the image
\* is cached), then the new ref callback runs.
SrcChange(src, cached) ==
  /\ img.state = "mounted"
  /\ img.events < MaxImgEvents
  /\ src # img.src
  /\ img' = Tick(OwnRef([img EXCEPT !.src = src, !.complete = cached,
                                    !.loadEvent = @ \/ cached,
                                    !.onLoadCalls = Append(@, 0),
                                    !.blurCalls = Append(@, 0)]))
  /\ UNCHANGED navVars

\* A pending decode() settles and its continuation runs.
DecodeSettle(k) ==
  /\ k \in 1..Len(img.decodes)
  /\ img' = DecodeContinuation(img, k)
  /\ UNCHANGED navVars

\* React unmounts the element.
Unmount ==
  /\ img.state = "mounted"
  /\ img' = [img EXCEPT !.state = "gone", !.connected = FALSE]
  /\ UNCHANGED navVars

NextImg ==
  \/ \E src \in ImgSrcs, placeholder \in {"empty", "blur"},
        complete \in BOOLEAN, loadEvent \in BOOLEAN :
       Mount(src, placeholder, complete, loadEvent)
  \/ ImageLoaded
  \/ LoadEvent
  \/ \E placeholder \in {"empty", "blur"} : RefCallback(placeholder)
  \/ \E src \in ImgSrcs, cached \in BOOLEAN : SrcChange(src, cached)
  \/ \E k \in 1..MaxImgEvents : DecodeSettle(k)
  \/ Unmount

Init ==
  /\ routerKey = Undefined
  /\ previousRouterKey = Undefined
  /\ transitionImgSelector = Undefined
  /\ transitionAttributeName = Undefined
  /\ transitionAttributeValue = Undefined
  /\ sessionStorage = EmptyStorage
  /\ dom = <<>>
  /\ named = {}
  /\ nav = [NoNav EXCEPT !.kind = "load"]
  /\ fwd = NoFwd
  /\ last = NoRun
  /\ steps = 0
  /\ img = NoImg

Next ==
  \/ \E key \in RouterKeys, d \in DomPool : Complete(key, d)
  \/ \E linkImg \in {e \in Elements : HasTransitionableClass(e)
                                       /\ \E k \in 1..Len(dom) : dom[k] = e}
                    \cup {Null},
        navigates \in BOOLEAN : LinkClick(linkImg, navigates)
  \/ HistoryTraverse
  \/ Reload

Spec == Init /\ [][Next]_vars

SpecImg == Init /\ [][NextImg]_vars

\* ================================================================ claims
Completed == last.op = "complete"

\* The session-storage key text for the ordered pair of router keys x, y.
StoredUnder(x, y) ==
  "__NRVT_view_transition_image_selector_" \o Str(x) \o "-" \o Str(y)

InDom(e) == \E k \in 1..Len(dom) : dom[k] = e

\* C1: after every run of handleRouteChangeComplete the pending marker's
\* attribute value is undefined, whichever branch matched; a marker a click
\* wrote is therefore pending for at most one completion.
C1_MarkerClearedAfterCompletion ==
  Completed => transitionAttributeValue = Undefined

\* A completion that found a marker pending and matched it.
C1_Witness ==
  /\ Completed
  /\ Truthy(last.value)
  /\ Truthy(last.transitionImg)
  /\ transitionAttributeValue = Undefined

\* The back leg of A -> B -> A: a history navigation completing with the key
\* the last link navigation left from, while on the (different) key it led
\* to, no click in between, the click having found an image.
BackLeg ==
  /\ Completed
  /\ last.nav.kind = "traverse"
  /\ last.fwd.img # Null
  /\ last.c = last.fwd.from
  /\ last.p = last.fwd.to
  /\ last.p # last.c

\* C2 as stated: on the back leg, whenever the stored selector resolves to a
\* live element, the element named is the one the forward click found.
C2_Original ==
  (BackLeg /\ Truthy(last.img)) => named = {last.fwd.img}

\* C2 amended: on the back leg the element named is the forward click's
\* image whenever the selector stored under `a-b` resolves to that same
\* element in the document rendered for the back navigation.
C2_BackLegNamesRecordedElement ==
  (BackLeg
   /\ Truthy(GetItem(last.store, StoredUnder(last.c, last.p)))
   /\ QuerySelector(GetItem(last.store, StoredUnder(last.c, last.p)), dom)
        = last.fwd.img)
  => named = {last.fwd.img}

C2_Witness ==
  /\ BackLeg
  /\ QuerySelector(GetItem(last.store, StoredUnder(last.c, last.p)), dom)
       = last.fwd.img
  /\ named = {last.fwd.img}

\* The marker branch ran and matched: the stored selector gave no element
\* and an element carries the pending marker's attribute.
MarkerBranchMatched ==
  /\ Completed
  /\ ~Truthy(last.img)
  /\ Truthy(last.transitionImg)

\* C3 as stated: the matched element is named and its selector is stored
\* under `p-c`, so that the entry under `p-c` resolves to an element with
\* the marker's attribute value.
C3_Original ==
  MarkerBranchMatched =>
    /\ named = {last.transitionImg}
    /\ GetItem(sessionStorage, StoredUnder(last.p, last.c))
         = GetElementSelector(last.transitionImg, dom)

\* C3 amended: the matched element is named and its selector is stored under
\* `c-p` (current-previous); that entry resolves, in the rendered document,
\* to the matched element, whose attribute equals the marker's value.
C3_MarkerMatchStoredUnderBackKey ==
  MarkerBranchMatched =>
    /\ named = {last.transitionImg}
    /\ InDom(last.transitionImg)
    /\ Attr(last.transitionImg, Str(last.name)) = Str(last.value)
    /\ GetItem(sessionStorage, StoredUnder(last.c, last.p))
         = GetElementSelector(last.transitionImg, dom)
    /\ QuerySelector(GetItem(sessionStorage, StoredUnder(last.c, last.p)), dom)
         = last.transitionImg

\* A click on the image with src /img/a.png, then a completion r1 -> r2.
C3_Witness ==
  /\ MarkerBranchMatched
  /\ last.nav.kind = "link"
  /\ last.nav.own
  /\ last.p = "r1" /\ last.c = "r2"
  /\ last.value = "/img/a.png"
  /\ SrcAttr(QuerySelector(GetItem(sessionStorage, StoredUnder("r2", "r1")),
                           dom)) = "/img/a.png"

\* C4 as stated: in every completion the key written for the forward
\* direction differs from the key read for the backward direction, so the
\* selector step 2 persists is never the one the backward lookup reads.
C4_Original ==
  Completed =>
    /\ StoredUnder(last.p, last.c) # last.backKey
    /\ (last.step2 # <<>> => last.step2[1] # last.backKey)

\* C4 amended: whenever the previous and the new key differ, the forward
\* key differs from the backward key and the backward lookup reads the entry
\* that was stored before this completion, not the one step 2 wrote.
C4_KeysDifferWhenRouterKeysDiffer ==
  (Completed /\ last.p # last.c) =>
    /\ StoredUnder(last.p, last.c) # last.backKey
    /\ last.backKey = StoredUnder(last.c, last.p)
    /\ (last.step2 # <<>> =>
          /\ last.step2[1] # last.backKey
          /\ last.backSelector = GetItem(last.store, last.backKey))

\* Step 2 wrote, and an older entry under the backward key was read.
C4_Witness ==
  /\ Completed
  /\ last.p # last.c
  /\ last.step2 # <<>>
  /\ Truthy(last.backSelector)
  /\ last.backSelector = GetItem(last.store, last.backKey)

\* C5 as stated: the completion of a navigation a click started reads
\* exactly the marker and the transient selector that click wrote.
C5_Original ==
  (Completed /\ last.nav.kind = "link") =>
    /\ last.slot = last.nav.wroteSelector
    /\ last.name = last.nav.wroteName
    /\ last.value = last.nav.wroteValue

\* C5 amended: the completion of a navigation started by a click that found
\* a transitionable image, with no later click that found an image before
\* the completion, reads exactly the marker and selector that click wrote.
C5_CompletionReadsOwnClickWrites ==
  (Completed /\ last.nav.kind = "link" /\ last.nav.img # Null /\ last.nav.own)
  =>
    /\ last.slot = last.nav.wroteSelector
    /\ last.name = last.nav.wroteName
    /\ last.value = last.nav.wroteValue
    /\ last.value = StripOrigin(SrcProperty(last.nav.img))
    /\ last.name = "src"

C5_Witness ==
  /\ Completed
  /\ last.nav.kind = "link"
  /\ last.nav.own
  /\ last.nav.img = "g"
  /\ last.slot = "#transition-img"
  /\ last.value = "/img/a.png"

\* C6 as stated: each completion records its key as current, and a marker
\* written by the click of a superseded navigation is not used, neither to
\* name an element nor to persist a selector.
C6_Original ==
  Completed =>
    /\ routerKey = last.c
    /\ (last.nav.superseded =>
          /\ last.transitionImg = Null
          /\ last.markerWrite = <<>>)

\* C6 amended: each completion records its key as current and the key it
\* replaced as previous; the marker is cleared at the end of the run, after
\* the lookups: a marker pending at a completion (that of a superseded
\* navigation included) is looked up whenever the stored selector gives no
\* element, and a completion that follows with no click in between finds
\* no marker value and no transient selector.
C6_MarkerUsedOnceThenCleared ==
  Completed =>
    /\ routerKey = last.c
    /\ previousRouterKey = last.p
    /\ (~Truthy(last.img) =>
          last.transitionImg = QueryAttribute(last.name, last.value, dom))
    /\ transitionAttributeValue = Undefined
    /\ (~last.nav.marked =>
          /\ last.value = Undefined
          /\ ~Truthy(last.slot))

\* The marker of a superseded navigation is matched by the completion of
\* the navigation that replaced it.
C6_Witness ==
  /\ Completed
  /\ last.nav.superseded
  /\ last.nav.kind = "traverse"
  /\ Truthy(last.value)
  /\ Truthy(last.transitionImg)
  /\ named = {last.transitionImg}

\* The stored backward selector resolves to no element of the document.
StaleSelector ==
  /\ Completed
  /\ Truthy(last.backSelector)
  /\ QuerySelector(last.backSelector, dom) = Null

\* C7: a stale selector under the backward key is a miss: no element is
\* named on its behalf and the marker lookup runs as it does when no
\* selector is stored.
C7_StaleSelectorIsMiss ==
  StaleSelector =>
    LET m == QueryAttribute(last.name, last.value, dom)
    IN /\ ~Truthy(last.img)
       /\ last.transitionImg = m
       /\ named = (IF m = Null THEN {} ELSE {m})
       /\ last.markerWrite =
            (IF m = Null THEN <<>>
             ELSE <<StoredUnder(last.c, last.p), GetElementSelector(m, dom)>>)

C7_Witness ==
  /\ StaleSelector
  /\ Len(dom) > 0
  /\ Truthy(last.value)
  /\ Truthy(last.transitionImg)

\* A navigation started by a click that found no image completes, and no
\* backward selector is stored.
NoImageClickCompleted ==
  /\ Completed
  /\ last.nav.kind = "link"
  /\ last.nav.img = Null
  /\ ~Truthy(last.backSelector)

\* C8 as stated: that completion only cleans up: no element is named and
\* the marker branch stores nothing, whatever the document contains.
C8_Original ==
  NoImageClickCompleted =>
    /\ named = {}
    /\ last.markerWrite = <<>>

\* C8 amended: that completion only cleans up provided no marker of an
\* earlier click is still pending and no element of the document has the
\* attribute the lookup `[name="undefined"]` asks for.
C8_NoImageClickCleansUpOnly ==
  (NoImageClickCompleted
   /\ ~last.nav.marked
   /\ \A k \in 1..Len(dom) : Attr(dom[k], Str(last.name)) # "undefined")
  =>
    /\ named = {}
    /\ last.markerWrite = <<>>
    /\ sessionStorage = last.store

\* Such a completion in a document that still holds a named element.
C8_Witness ==
  /\ NoImageClickCompleted
  /\ ~last.nav.marked
  /\ last.name = "src"
  /\ Len(dom) > 0
  /\ \A k \in 1..Len(dom) : Attr(dom[k], Str(last.name)) # "undefined"
  /\ named = {}

\* C9: a completion with new key c and previously current key p stores a
\* non-empty transient selector under `p-c` and empties the slot; with an
\* empty slot step 2 writes nothing; the slot is empty after every
\* completion.
C9_SlotPersistedAndCleared ==
  Completed =>
    /\ previousRouterKey = last.p
    /\ ~Truthy(transitionImgSelector)
    /\ (Truthy(last.slot) =>
          /\ last.step2 = <<StoredUnder(last.p, last.c), last.slot>>
          /\ transitionImgSelector = Undefined
          /\ (last.p # last.c =>
                GetItem(sessionStorage, StoredUnder(last.p, last.c))
                  = last.slot))
    /\ (~Truthy(last.slot) => last.step2 = <<>>)

C9_Witness ==
  /\ Completed
  /\ Truthy(last.slot)
  /\ last.p = "r1" /\ last.c = "r2"
  /\ GetItem(sessionStorage, StoredUnder("r1", "r2")) = last.slot
  /\ transitionImgSelector = Undefined

\* C10: for every load of a src, whatever the order of the ref callback, the
\* load event, the settling of decode(), src changes and unmount, the
\* callbacks (onLoad / onLoadingComplete, and setBlurComplete) are invoked
\* at most once (one decode per load, whose continuation invokes them
\* once), and never while the element is disconnected.
C10_CallbacksAtMostOncePerLoad ==
  /\ \A k \in 1..Len(img.onLoadCalls) :
       img.onLoadCalls[k] <= 1 /\ img.blurCalls[k] <= 1
  /\ img.detachedCalls = 0
  /\ \A k \in 1..Len(img.onLoadCalls) :
       img.onLoadCalls[k]
         + Cardinality({j \in 1..Len(img.decodes) : img.decodes[j] = k}) <= 1

\* The ref callback and the load event both ran for one src while its
\* decode was pending, and the callbacks were invoked once for it.
C10_Witness ==
  /\ img.state = "mounted"
  /\ img.complete
  /\ ~img.loadEvent
  /\ img.skipped
  /\ img.loadedSrc = img.src
  /\ img.decodes = <<>>
  /\ img.onLoadCalls = <<1>>
  /\ img.blurCalls = <<1>>

\* C11: after every completion at most one element of the document carries
\* the transition name: the clean-up runs before any assignment and only
\* one of the two branches (stored backward selector, else pending marker)
\* assigns it, to one element; also when an element named before is still
\* in the document.
C11_AtMostOneNamedAfterCompletion ==
  Completed =>
    /\ Cardinality(named) <= 1
    /\ \A e \in named : InDom(e) /\ e \in {last.img, last.transitionImg}
    /\ (Truthy(last.img) => named = {last.img})
    /\ ~(Truthy(last.img) /\ Truthy(last.transitionImg))

\* A completion in whose document an element named by an earlier completion
\* is still present, and which names another element.
C11_Witness ==
  /\ Completed
  /\ last.kept # {}
  /\ \A e \in last.kept : InDom(e)
  /\ Cardinality(named) = 1
  /\ named \cap last.kept = {}

====
